---- MODULE Spec2Model ----
(***************************************************************************)
(* SMBX2 Episode Updater: the stage -> install merge (zip_merge.py and the *)
(* inline copy of it in smbx2_episode_updater.py), the archive extractor, *)
(* the root locator, the backup snapshot and the update flows (CLI, GUI).  *)
(*                                                                         *)
(* A file name is a sequence of one-character strings, a path a sequence   *)
(* of names, and the text of a path (str(path)) the names joined by "/".   *)
(* A directory tree is a function from the paths of a bounded universe to  *)
(* nodes: absent, directory, or regular file with its content.             *)
(***************************************************************************)
EXTENDS Integers, Sequences, FiniteSets, TLC

VARIABLES
    stage,      \* the stage tree (episode root found in the extracted archive)
    install,    \* the install tree (episodes_dir / target_name)
    preserve,   \* the preserve globs handed to the merge
    scan,       \* the order in which rglob("*") enumerates paths
    impl,       \* which merge runs: "zip" (zip_merge.py) or "inline"
    pc,         \* position of the merge: idle, exec, notify, copy, del, prune, done, raised
    stage_map,  \* inventory of stage: sequence of [rel, hsh]
    target_map, \* inventory of install: sequence of [rel, hsh]
    ops,        \* the plan: sequence of [phase, rel]
    total,      \* len(ops), taken once after planning
    idx,        \* the merge's idx: operations gone through
    pos,        \* position of the running loop in the sequence it iterates
    executed,   \* the operations the loop has gone through, in order
    changed,    \* the ChangeSet being built
    calls,      \* invocations of on_progress so far: [phase, rel, idx, total, after]
    hasCb,      \* on_progress was supplied
    log,        \* mutations of install files by this merge: [phase, rel, at, old, new]
    run,        \* number of merge calls started
    install0,   \* install as it was when the current merge was called
    faults,     \* number of injected I/O failures and interferences so far
    cbRaised,   \* some on_progress invocation raised
    flow,       \* the caller: "merge" (direct), "cli", "gui", "unzip", "backup"
    fpc,        \* position of the caller
    backup,     \* the backup archive: [state, files]
    existed,    \* install_dir existed when the update flow tested it
    disk,       \* absolute paths written by the extractor
    entries,    \* archive entries left to extract
    xerr,       \* the extractor's outcome: "", "ok", "traversal", "io"
    archive,    \* the downloaded archive: [name, sha, entries]
    ret,        \* the successful returns of unzip_to_stage: [sha, reused, root, wrapper]
    eroot,      \* what find_episode_root returned
    target_name, \* the install directory's name under the episodes directory
    saved,      \* the persisted state (state.json)
    optName,    \* args.install_name of the update command; the empty name is None
    parent,     \* the parent of the install directory: "none" or "dir"
    ucalls,     \* number of unzip_to_stage calls started
    posix,      \* the platform matches file names by case (POSIX) or not (Windows)
    bdir,       \* CACHE_DIR/backups: archive name -> the files the archive holds
    cfg_url,    \* GUI: self.cfg["episode_url"]
    url_ok,     \* GUI: self.url_ok
    pending,    \* GUI: callbacks queued with root.after: [refresh, probe]
    probes,     \* GUI: probe threads in flight, per URL they probe
    workers,    \* GUI: the update workers started: [url, wpc]
    probed,     \* GUI: the URLs some probe has found valid
    events      \* GUI: number of user actions so far

vars == <<stage, install, preserve, scan, impl, pc, stage_map, target_map, ops,
          total, idx, pos, executed, changed, calls, hasCb, log, run, install0, faults,
          cbRaised, flow, fpc, backup, existed, disk, entries, xerr, archive, ret,
          eroot, target_name, saved, optName, parent, ucalls, posix, bdir,
          cfg_url, url_ok, pending, probes, workers, probed, events>>

(***************************************************************************)
(* Bounds of the model.                                                    *)
(***************************************************************************)
\* merge calls in a row on the same directories
MaxRuns == 2
\* injected I/O failures and interferences per behaviour
MaxFaults == 1

(***************************************************************************)
(* Names, paths and their text.                                            *)
(***************************************************************************)
Na == <<"a">>
Nc == <<"c">>
Nd == <<"d">>
Ne == <<"e">>

Root == <<>>
Pa   == <<Na>>
Pd   == <<Nd>>
Pdd  == <<Nd, Nd>>
Pde  == <<Nd, Ne>>
Pdec == <<Nd, Ne, Nc>>

\* the universe of paths below a tree root; Root is the tree root itself
Nodes == {Root, Pa, Pd, Pdd, Pde, Pdec}

Parent(p) == SubSeq(p, 1, Len(p) - 1)
Last(s) == s[Len(s)]
IsPrefix(a, b) == Len(a) <= Len(b) /\ SubSeq(b, 1, Len(a)) = a
IsAncestor(a, b) == Len(a) < Len(b) /\ IsPrefix(a, b)

RECURSIVE JoinNames(_)
\* os.sep.join(parts) on the POSIX build
JoinNames(p) ==
    IF p = <<>> THEN <<>>
    ELSE IF Len(p) = 1 THEN p[1]
    ELSE p[1] \o <<"/">> \o JoinNames(Tail(p))

\* str.replace("\\", "/")
ReplaceBackslash(s) == [i \in 1..Len(s) |-> IF s[i] = "\\" THEN "/" ELSE s[i]]

\* str(p.relative_to(root)).replace("\\", "/")
RelStr(p) == ReplaceBackslash(JoinNames(p))

RECURSIVE SplitAt(_, _, _)
\* the names of a path text: split at "/", empty and "." names dropped (pathlib)
SplitAt(s, cur, acc) ==
    LET flush == IF cur = <<>> \/ cur = <<".">> THEN acc ELSE Append(acc, cur)
    IN  IF s = <<>> THEN flush
        ELSE IF Head(s) = "/" THEN SplitAt(Tail(s), <<>>, flush)
        ELSE SplitAt(Tail(s), Append(cur, Head(s)), acc)

\* Path(text).parts without the anchor
PathParts(s) == SplitAt(s, <<>>, <<>>)

RECURSIVE FnMatchCase(_, _)
\* fnmatch.fnmatch(name, pat) for patterns of literals, "*" and "?":
\* the pattern is matched against the whole text and "*" also matches "/"
FnMatchCase(s, pat) ==
    IF pat = <<>> THEN s = <<>>
    ELSE IF Head(pat) = "*"
         THEN FnMatchCase(s, Tail(pat)) \/ (s # <<>> /\ FnMatchCase(Tail(s), pat))
    ELSE IF Head(pat) = "?"
         THEN s # <<>> /\ FnMatchCase(Tail(s), Tail(pat))
    ELSE s # <<>> /\ Head(s) = Head(pat) /\ FnMatchCase(Tail(s), Tail(pat))

\* _glob_preserved(install_dir / rel, globs, install_dir)
GlobPreserved(p, globs) ==
    \E i \in 1..Len(globs) : FnMatchCase(RelStr(p), globs[i])

(***************************************************************************)
(* Directory trees.                                                        *)
(***************************************************************************)
NoNode == [kind |-> "none"]
DirNode == [kind |-> "dir"]
FileNode(c) == [kind |-> "file", data |-> c]

\* file contents: two versions are enough to tell equal from different
Data == {"v1", "v2"}
NodeValues == {NoNode, DirNode} \cup {FileNode(c) : c \in Data}

IsFile(t, p) == p \in Nodes /\ t[p].kind = "file"
IsDir(t, p) == p \in Nodes /\ t[p].kind = "dir"
Exists(t, p) == p \in Nodes /\ t[p].kind # "none"
Children(t, p) == {q \in Nodes : q # Root /\ Parent(q) = p /\ Exists(t, q)}
FilesOf(t) == {p \in Nodes : IsFile(t, p)}

\* what a path of the universe may be: "a", "d/d" and "d/e/c" are files when
\* present, "d/e" a directory, "d" either
MayBe(p) ==
    IF p = Root THEN {DirNode}
    ELSE IF p = Pd THEN NodeValues
    ELSE IF p = Pde THEN {NoNode, DirNode}
    ELSE NodeValues \ {DirNode}

WellFormed(t) ==
    \A p \in Nodes : p # Root /\ Exists(t, p) => IsDir(t, Parent(p))

Trees == {t \in [Nodes -> NodeValues] :
            (\A p \in Nodes : t[p] \in MayBe(p)) /\ WellFormed(t)}

EmptyTree == [p \in Nodes |-> NoNode]

\* sha256_file: distinct contents have distinct digests
Sha256(c) == <<"sha256", c>>

(***************************************************************************)
(* Tree Inventory.                                                         *)
(***************************************************************************)
\* the orders in which rglob("*") may enumerate the universe
ScanOrders == { <<Pa, Pd, Pdd, Pde, Pdec>>, <<Pd, Pde, Pdec, Pdd, Pa>> }

RECURSIVE InventoryOf(_, _)
InventoryOf(t, order) ==
    IF order = <<>> THEN <<>>
    ELSE LET p == Head(order)
             rest == InventoryOf(t, Tail(order))
         IN  IF IsFile(t, p)
             THEN <<[rel |-> RelStr(p), hsh |-> Sha256(t[p].data)]>> \o rest
             ELSE rest

\* inventory_hashes(root): rel -> digest of every regular file, in rglob order
inventory_hashes(t, order) == InventoryOf(t, order)

MapHas(m, rel) == \E i \in 1..Len(m) : m[i].rel = rel
MapGet(m, rel) == m[CHOOSE i \in 1..Len(m) : m[i].rel = rel].hsh

(***************************************************************************)
(* Planning (zip_merge.merge_stage_into_install, lines 146-163).           *)
(***************************************************************************)
\* the test without the comparison of digests
NeedsWriteAlways(e, tm, globs) == ~GlobPreserved(PathParts(e.rel), globs)

\* the test of lines 150-156 on one stage entry
NeedsWrite(e, tm, globs) ==
    /\ ~GlobPreserved(PathParts(e.rel), globs)
    /\ (~MapHas(tm, e.rel) \/ MapGet(tm, e.rel) # e.hsh)

\* the test of lines 158-161 on one install entry
NeedsDelete(e, sm, globs) ==
    /\ ~MapHas(sm, e.rel)
    /\ ~GlobPreserved(PathParts(e.rel), globs)

RECURSIVE WriteOps(_, _, _)
WriteOps(sm, tm, globs) ==
    IF sm = <<>> THEN <<>>
    ELSE LET rest == WriteOps(Tail(sm), tm, globs)
         IN  IF NeedsWrite(Head(sm), tm, globs)
             THEN <<[phase |-> "write", rel |-> Head(sm).rel]>> \o rest
             ELSE rest

RECURSIVE DeleteOps(_, _, _)
DeleteOps(tm, sm, globs) ==
    IF tm = <<>> THEN <<>>
    ELSE LET rest == DeleteOps(Tail(tm), sm, globs)
         IN  IF NeedsDelete(Head(tm), sm, globs)
             THEN <<[phase |-> "delete", rel |-> Head(tm).rel]>> \o rest
             ELSE rest

\* a plan that puts the deletes first
PlanDeletesFirst(sm, tm, globs) == DeleteOps(tm, sm, globs) \o WriteOps(sm, tm, globs)

\* a plan that holds the writes only, the deletes being left for later
PlanWritesOnly(sm, tm, globs) == WriteOps(sm, tm, globs)

\* ops: the writes in stage_map order, then the deletes in target_map order
PlanOps(sm, tm, globs) == WriteOps(sm, tm, globs) \o DeleteOps(tm, sm, globs)

(***************************************************************************)
(* File-system primitives.                                                 *)
(***************************************************************************)
Prefixes(p) == {SubSeq(p, 1, n) : n \in 0..Len(p)}

\* Path.mkdir(parents=True, exist_ok=True): fails when the path or one of
\* its ancestors is a regular file, else makes every missing one a directory
MkdirParents(t, p) ==
    IF \E a \in Prefixes(p) : IsFile(t, a)
    THEN [ok |-> FALSE, tree |-> t]
    ELSE [ok |-> TRUE,
          tree |-> [q \in Nodes |-> IF q \in Prefixes(p) THEN DirNode ELSE t[q]]]

\* where shutil.copy2(src, dst) writes: into dst when dst is a directory
Copy2Target(t, src, dst) ==
    IF IsDir(t, dst) THEN Append(dst, Last(src)) ELSE dst

\* shutil.copy2(src, dst): fails when src is no regular file or the place
\* it writes to is a directory
Copy2(s, t, src, dst) ==
    LET at == Copy2Target(t, src, dst)
    IN  IF ~IsFile(s, src) \/ at \notin Nodes \/ IsDir(t, at)
        THEN [ok |-> FALSE, tree |-> t, at |-> at]
        ELSE [ok |-> TRUE, tree |-> [t EXCEPT ![at] = FileNode(s[src].data)], at |-> at]

\* Path.unlink()
Unlink(t, p) == [t EXCEPT ![p] = NoNode]

(***************************************************************************)
(* Empty-directory cleanup (lines 192-201).                                *)
(***************************************************************************)
RECURSIVE ExistingOf(_, _)
\* list(install_dir.rglob("*")): every existing path below the root
ExistingOf(t, order) ==
    IF order = <<>> THEN <<>>
    ELSE IF Exists(t, Head(order))
         THEN <<Head(order)>> \o ExistingOf(t, Tail(order))
         ELSE ExistingOf(t, Tail(order))

\* len(str(x)) up to the constant length of str(install_dir) + separator
StrLen(p) == Len(JoinNames(p))

RECURSIVE InsertByLen(_, _)
InsertByLen(p, sorted) ==
    IF sorted = <<>> THEN <<p>>
    ELSE IF StrLen(Head(sorted)) <= StrLen(p) THEN <<p>> \o sorted
    ELSE <<Head(sorted)>> \o InsertByLen(p, Tail(sorted))

RECURSIVE SortedShortestFirst(_)
\* the sort without reverse=True: parents come before their children
SortedShortestFirst(s) ==
    IF s = <<>> THEN <<>>
    ELSE LET rest == SortedShortestFirst(Tail(s))
             before == SelectSeq(rest, LAMBDA q : StrLen(q) < StrLen(Head(s)))
             after == SelectSeq(rest, LAMBDA q : StrLen(q) >= StrLen(Head(s)))
         IN  before \o <<Head(s)>> \o after

RECURSIVE SortedByLen(_)
\* sorted(..., key=lambda x: len(str(x)), reverse=True): longest text first
SortedByLen(s) ==
    IF s = <<>> THEN <<>>
    ELSE InsertByLen(Head(s), SortedByLen(Tail(s)))

RECURSIVE PruneFold(_, _, _)
\* the loop of lines 193-201; rmdir fails (and is ignored) on the paths of bad
PruneFold(t, s, bad) ==
    IF s = <<>> THEN t
    ELSE LET p == Head(s)
         IN  IF IsDir(t, p) /\ Children(t, p) = {} /\ p \notin bad
             THEN PruneFold([t EXCEPT ![p] = NoNode], Tail(s), bad)
             ELSE PruneFold(t, Tail(s), bad)

\* a cleanup that decides emptiness once, before it removes anything
PruneSnapshot(t, order, bad) ==
    [q \in Nodes |-> IF q # Root /\ IsDir(t, q) /\ Children(t, q) = {} /\ q \notin bad
                     THEN NoNode ELSE t[q]]

PruneEmpty(t, order, bad) == PruneFold(t, SortedByLen(ExistingOf(t, order)), bad)

(***************************************************************************)
(* One planned operation (lines 168-183).  fail injects an I/O error into  *)
(* the operation's system call: copy2 for a write, unlink for a delete.    *)
(* wrote: the call changed install; listed: changed.append(rel) was run;   *)
(* raised: an exception left the loop.                                     *)
(***************************************************************************)
WriteEffect(s, t, rel, fail) ==
    LET src == PathParts(rel)
        dst == PathParts(rel)
        mk  == MkdirParents(t, Parent(dst))
        cp  == Copy2(s, mk.tree, src, dst)
    IN  IF ~mk.ok
        THEN [tree |-> t, raised |-> TRUE, wrote |-> FALSE, listed |-> FALSE, at |-> dst]
        ELSE IF ~Exists(s, src)
        THEN [tree |-> mk.tree, raised |-> FALSE, wrote |-> FALSE, listed |-> FALSE, at |-> dst]
        ELSE IF fail \/ ~cp.ok
        THEN [tree |-> mk.tree, raised |-> TRUE, wrote |-> FALSE, listed |-> FALSE, at |-> cp.at]
        ELSE [tree |-> cp.tree, raised |-> FALSE, wrote |-> TRUE, listed |-> TRUE, at |-> cp.at]

\* a delete that appends to changed whether or not unlink was run and worked
DeleteListsAlways(t, rel, fail) ==
    LET dst == PathParts(rel)
    IN  IF ~Exists(t, dst) \/ fail \/ IsDir(t, dst)
        THEN [tree |-> t, raised |-> FALSE, wrote |-> FALSE, listed |-> TRUE, at |-> dst]
        ELSE [tree |-> Unlink(t, dst), raised |-> FALSE, wrote |-> TRUE, listed |-> TRUE, at |-> dst]

DeleteEffect(t, rel, fail) ==
    LET dst == PathParts(rel)
    IN  IF ~Exists(t, dst)
        THEN [tree |-> t, raised |-> FALSE, wrote |-> FALSE, listed |-> FALSE, at |-> dst]
        ELSE IF fail \/ IsDir(t, dst)
        THEN [tree |-> t, raised |-> FALSE, wrote |-> FALSE, listed |-> FALSE, at |-> dst]
        ELSE [tree |-> Unlink(t, dst), raised |-> FALSE, wrote |-> TRUE, listed |-> TRUE, at |-> dst]

OpEffect(s, t, op, fail) ==
    IF op.phase = "write" THEN WriteEffect(s, t, op.rel, fail)
    ELSE DeleteEffect(t, op.rel, fail)

LogEntry(op, eff, t) ==
    [phase |-> op.phase, rel |-> op.rel, at |-> eff.at, old |-> t[eff.at], new |-> eff.tree[eff.at]]

(***************************************************************************)
(* zip_merge.merge_stage_into_install as a process.                        *)
(***************************************************************************)
inputVars == <<stage, preserve, scan, impl, hasCb>>
guiVars   == <<cfg_url, url_ok, pending, probes, workers, probed, events>>
flowVars  == <<flow, fpc, backup, existed>>
unzipVars == <<disk, entries, xerr>>
auxVars   == <<archive, ret, eroot, target_name, saved, optName, parent, ucalls, posix>>
auxNoParent == <<archive, ret, eroot, target_name, saved, optName, ucalls, posix>>

\* the callback left out after the last operation
AfterOpButLast(n) ==
    IF n = Len(ops) THEN "prune" ELSE IF hasCb THEN "notify" ELSE "exec"

\* after the body of one iteration: the callback when supplied, else the loop
AfterOp(n) == IF hasCb THEN "notify" ELSE IF n = Len(ops) THEN "prune" ELSE "exec"

\* what install_dir.mkdir(parents=True, exist_ok=True) makes of the parent
\* of install_dir: a missing parent is created
AfterMkdirParents(par) == "dir"

\* lines 138-165: create install_dir, take both inventories, plan
BeginZip ==
    \E mk \in {MkdirParents(install, Root)} :
    \E sm \in {inventory_hashes(stage, scan)} :
    \E tm \in {inventory_hashes(mk.tree, scan)} :
    \E plan \in {PlanOps(sm, tm, preserve)} :
        /\ install0' = install
        /\ install' = mk.tree
        /\ stage_map' = sm
        /\ target_map' = tm
        /\ ops' = plan
        /\ total' = Len(plan)
        /\ idx' = 0
        /\ pos' = 0
        /\ changed' = <<>>
        /\ executed' = <<>>
        /\ calls' = <<>>
        /\ log' = <<>>
        /\ run' = run + 1
        /\ parent' = AfterMkdirParents(parent)
        /\ pc' = IF Len(plan) = 0 THEN "prune" ELSE "exec"

\* the caller of a direct merge: a first call, or a further call after a return
Call ==
    /\ flow = "merge"
    /\ impl = "zip"
    /\ pc \in {"idle", "done"}
    /\ run < MaxRuns
    /\ BeginZip
    /\ UNCHANGED <<guiVars, bdir, inputVars, auxNoParent, flowVars, unzipVars, faults, cbRaised>>

\* lines 168-185: the body of the loop for ops[pos + 1]
ExecOp(fail) ==
    /\ pc = "exec"
    /\ impl = "zip"
    /\ pos < Len(ops)
    /\ fail => faults < MaxFaults
    /\ \E op \in {ops[pos + 1]} : \E eff \in {OpEffect(stage, install, ops[pos + 1], fail)} :
           /\ install' = eff.tree
           /\ faults' = IF fail THEN faults + 1 ELSE faults
           /\ IF eff.raised
              THEN /\ pc' = "raised"
                   /\ UNCHANGED <<idx, pos, executed, changed, log>>
              ELSE /\ changed' = IF eff.listed THEN Append(changed, op.rel) ELSE changed
                   /\ log' = IF eff.wrote THEN Append(log, LogEntry(op, eff, install)) ELSE log
                   /\ executed' = Append(executed, op)
                   /\ idx' = idx + 1
                   /\ pos' = pos + 1
                   /\ pc' = AfterOp(pos + 1)
    /\ UNCHANGED <<guiVars, bdir, inputVars, auxVars, flowVars, unzipVars, stage_map, target_map, ops, total,
                   calls, run, install0, cbRaised>>

\* an exception out of on_progress that is not caught
CallbackPropagates(next) == "raised"

\* what an exception out of on_progress does to the loop: caught (lines 189-190)
CallbackRaised(next) == next

\* lines 186-190: on_progress(phase, rel, idx, total); raises is the callback's outcome
Notify(raises) ==
    /\ pc = "notify"
    /\ LET op == ops[pos]
           next == IF pos = Len(ops) THEN "prune" ELSE "exec"
       IN  /\ calls' = Append(calls, [phase |-> op.phase, rel |-> op.rel, idx |-> idx,
                                      total |-> total, after |-> Len(executed)])
           /\ pc' = IF raises THEN CallbackRaised(next) ELSE next
    /\ cbRaised' = (cbRaised \/ raises)
    /\ UNCHANGED <<guiVars, bdir, inputVars, auxVars, flowVars, unzipVars, install, stage_map, target_map, ops,
                   total, idx, pos, executed, changed, log, run, install0, faults>>

\* a cleanup that walks the stage tree as well
PruneBothTrees(bad) ==
    /\ pc = "prune"
    /\ install' = PruneEmpty(install, scan, bad)
    /\ stage' = PruneEmpty(stage, scan, bad)
    /\ pc' = "done"
    /\ UNCHANGED <<guiVars, bdir, preserve, scan, impl, hasCb, auxVars, flowVars, unzipVars,
                   stage_map, target_map, ops, total, idx, pos, executed, changed, calls,
                   log, run, install0, faults, cbRaised>>

\* lines 192-204: remove the empty directories and return changed
Prune(bad) ==
    /\ pc = "prune"
    /\ install' = PruneEmpty(install, scan, bad)
    /\ pc' = "done"
    /\ UNCHANGED <<guiVars, bdir, inputVars, auxVars, flowVars, unzipVars, stage_map, target_map, ops, total,
                   idx, pos, executed, changed, calls, log, run, install0, faults, cbRaised>>

(***************************************************************************)
(* The direct merge: every stage tree, install tree and preserve list.     *)
(***************************************************************************)
\* the preserve lists tried: none, "d/?", and the pair "a", "*c"
PreserveLists == { <<>>, << <<"d", "/", "?">> >>, <<Na, <<"*", "c">> >> }

NoBackup == [state |-> "none", files |-> {}]

\* Python's None where a name is expected
NoName == <<>>

\* state.json before any update was recorded
NoState == [last_zip_name |-> NoName, last_zip_sha256 |-> NoName, install_dir_name |-> NoName]

\* the state do_update records (lines 317-323)
Recorded == [last_zip_name |-> archive.name, last_zip_sha256 |-> archive.sha,
             install_dir_name |-> target_name]

\* an empty backups directory
NoBackups == <<>>

\* the URLs the configuration may hold
Urls == {"u1", "u2"}

\* the window before anything was scheduled or started
GuiIdle ==
    /\ cfg_url = "u1"
    /\ url_ok = FALSE
    /\ pending = [refresh |-> 0, probe |-> 0]
    /\ probes = [u \in Urls |-> 0]
    /\ workers = <<>>
    /\ probed = {}
    /\ events = 0

\* the part of the state an update flow works on, for a direct call
AuxIdle ==
    /\ archive = [name |-> NoName, sha |-> <<"k">>, entries |-> <<>>]
    /\ ret = <<>>
    /\ eroot = <<>>
    /\ target_name = NoName
    /\ saved = NoState
    /\ optName = NoName
    /\ ucalls = 0
    /\ posix = TRUE

MergeIdle ==
    /\ pc = "idle"
    /\ stage_map = <<>>
    /\ target_map = <<>>
    /\ ops = <<>>
    /\ total = 0
    /\ idx = 0
    /\ pos = 0
    /\ executed = <<>>
    /\ changed = <<>>
    /\ calls = <<>>
    /\ log = <<>>
    /\ run = 0
    /\ faults = 0
    /\ cbRaised = FALSE

Init ==
    /\ stage \in Trees
    /\ install \in Trees \cup {EmptyTree}
    /\ install0 = install
    /\ preserve \in PreserveLists
    /\ scan \in ScanOrders
    /\ impl = "zip"
    /\ hasCb \in BOOLEAN
    /\ MergeIdle
    /\ GuiIdle
    /\ bdir = NoBackups
    /\ AuxIdle
    /\ parent \in IF Exists(install, Root) THEN {"dir"} ELSE {"dir", "none"}
    /\ flow = "merge"
    /\ fpc = "merge"
    /\ backup = NoBackup
    /\ existed = FALSE
    /\ disk = {}
    /\ entries = <<>>
    /\ xerr = ""

Next ==
    \/ Call
    \/ ExecOp(FALSE)
    \/ \E raises \in BOOLEAN : Notify(raises)
    \/ Prune({})

Spec == Init /\ [][Next]_vars

(***************************************************************************)
(* The merge under I/O failures and outside interference: a system call of *)
(* an operation fails, a file of stage or install disappears while the     *)
(* plan is executed, rmdir fails on some directories.                      *)
(***************************************************************************)
\* another process removes a regular file of stage or of install
Interfere ==
    /\ pc \in {"exec", "notify"}
    /\ faults < MaxFaults
    /\ \E p \in Nodes \ {Root} :
          \/ /\ IsFile(stage, p)
             /\ stage' = Unlink(stage, p)
             /\ UNCHANGED install
          \/ /\ IsFile(install, p)
             /\ install' = Unlink(install, p)
             /\ UNCHANGED stage
    /\ faults' = faults + 1
    /\ UNCHANGED <<guiVars, bdir, preserve, scan, impl, hasCb, flowVars, unzipVars, auxVars, pc, stage_map,
                   target_map, ops, total, idx, pos, executed, changed, calls, log,
                   run, install0, cbRaised>>

\* the cleanup when rmdir raises on the directory p (ignored, lines 200-201)
PruneFails ==
    /\ faults < MaxFaults
    /\ \E p \in {q \in Nodes \ {Root} : IsDir(install, q)} : Prune({p})

InitFault ==
    /\ Init
    /\ hasCb = FALSE
    /\ scan = <<Pa, Pd, Pdd, Pde, Pdec>>

NextFault ==
    \/ Call
    \/ ExecOp(FALSE)
    \/ Prune({})
    \/ ExecOp(TRUE)
    \/ Interfere
    \/ PruneFails

SpecFault == InitFault /\ [][NextFault]_vars

(***************************************************************************)
(* The merge with a progress callback under the same failures.             *)
(***************************************************************************)
InitProgress ==
    /\ Init
    /\ hasCb = TRUE
    /\ scan = <<Pa, Pd, Pdd, Pde, Pdec>>

NextProgress ==
    \/ Call
    \/ ExecOp(FALSE)
    \/ Notify(FALSE)
    \/ Prune({})
    \/ ExecOp(TRUE)
    \/ Interfere
    \/ PruneFails

SpecProgress == InitProgress /\ [][NextProgress]_vars

(***************************************************************************)
(* Claims about the merge.                                                 *)
(***************************************************************************)
Preserved(p) == p # Root /\ GlobPreserved(p, preserve)
Returned == pc = "done"
Rels(s) == [i \in 1..Len(s) |-> s[i].rel]
\* an operation wrote somewhere else than at its own relative path
Misplaced == \E i \in 1..Len(log) : log[i].at # PathParts(log[i].rel)

\* C1: at every point of a merge, a preserved path that was a file of install
\* when the merge was called is the same file still, and a preserved path
\* that was no file then is no file now
C1_PreservedUntouched ==
    \A p \in Nodes :
        Preserved(p) =>
            IF IsFile(install0, p) THEN install[p] = install0[p]
            ELSE ~IsFile(install, p)

\* C2: once the merge has returned, every non-preserved file of stage is in
\* install with the same content, and every non-preserved file install had
\* and stage has not is gone
C2_Completeness ==
    Returned =>
        \A p \in Nodes :
            ~Preserved(p) =>
                /\ IsFile(stage, p) => install[p] = stage[p]
                /\ (IsFile(install0, p) /\ ~IsFile(stage, p)) => ~Exists(install, p)

\* C3: a second merge call right after a first that returned changes nothing
\* in install and returns an empty ChangeSet
C3_SecondRunEmpty ==
    run >= 2 => (changed = <<>> /\ log = <<>>)

\* C6: the merge is never left by an exception while operations planned
\* after the failing one are still to be executed
C6_FailureDoesNotAbort ==
    ~(pc = "raised" /\ pos + 1 < Len(ops))

IsSubSeqAt(sub, s, i, j) ==
    \* sub[i..] can be read off s[j..] from left to right
    LET RECURSIVE Fits(_, _)
        Fits(a, b) ==
            IF a > Len(sub) THEN TRUE
            ELSE IF b > Len(s) THEN FALSE
            ELSE IF sub[a] = s[b] THEN Fits(a + 1, b + 1)
            ELSE Fits(a, b + 1)
    IN  Fits(i, j)

NoDuplicates(s) == \A i, j \in 1..Len(s) : s[i] = s[j] => i = j

C8_EmptiedDirectoriesRemoved ==
    Returned =>
        /\ IsDir(install, Root)
        /\ \A i \in 1..Len(log) :
              log[i].phase = "delete" =>
                  \A a \in Prefixes(log[i].at) \ {Root, log[i].at} :
                      Exists(install, a) => Children(install, a) # {}

\* the merge deleted d/e/c, and both d/e and d are gone with it
C8_Witness ==
    /\ Returned
    /\ \E i \in 1..Len(log) : log[i].phase = "delete" /\ log[i].at = Pdec
    /\ IsDir(install0, Pde)
    /\ ~Exists(install, Pde)
    /\ ~Exists(install, Pd)

\* C9: with a callback and a returned merge, invocation i reports operation i
\* of the plan with idx = i and total = len(plan), and was made when exactly
\* i operations had been executed
C9_ProgressPerOperation ==
    (Returned /\ hasCb) =>
        /\ Len(calls) = Len(ops)
        /\ \A i \in 1..Len(calls) :
              /\ calls[i].phase = ops[i].phase
              /\ calls[i].rel = ops[i].rel
              /\ calls[i].idx = i
              /\ calls[i].total = Len(ops)
              /\ calls[i].after = i

\* a returned merge reported a write and a delete
C9_Witness ==
    /\ Returned
    /\ hasCb
    /\ Len(calls) >= 2
    /\ \E i, j \in 1..Len(calls) : calls[i].phase = "write" /\ calls[j].phase = "delete"

RECURSIVE RunOps(_, _, _, _)
\* the plan executed from left to right with no callback
RunOps(s, t, plan, ch) ==
    IF plan = <<>> THEN [status |-> "done", tree |-> t, changed |-> ch]
    ELSE LET eff == OpEffect(s, t, Head(plan), FALSE)
         IN  IF eff.raised THEN [status |-> "raised", tree |-> eff.tree, changed |-> ch]
             ELSE RunOps(s, eff.tree, Tail(plan),
                         IF eff.listed THEN Append(ch, Head(plan).rel) ELSE ch)

\* the outcome of the merge of s into t when no callback is involved
MergeOutcome(s, t, globs, order) ==
    LET t1 == MkdirParents(t, Root).tree
        plan == PlanOps(inventory_hashes(s, order), inventory_hashes(t1, order), globs)
        r == RunOps(s, t1, plan, <<>>)
    IN  IF r.status = "raised" THEN r
        ELSE [status |-> "done", tree |-> PruneEmpty(r.tree, order, {}), changed |-> r.changed]

\* C10: however the callback's invocations end, the merge ends as the merge
\* without callback does: same exit, same install tree, same ChangeSet, and
\* a returned merge has executed the whole plan
C10_CallbackCannotChangeMerge ==
    pc \in {"done", "raised"} =>
        /\ [status |-> pc, tree |-> install, changed |-> changed]
              = MergeOutcome(stage, install0, preserve, scan)
        /\ Returned => executed = ops

\* a merge whose callback raised has returned with changes
C10_Witness ==
    /\ Returned
    /\ cbRaised
    /\ Len(changed) >= 2

(***************************************************************************)
(* Archive Extractor: safe_join and the extracting branch of               *)
(* unzip_to_stage.  Absolute paths are sequences of names from the file    *)
(* system root; the cache is /c, the stage directory /c/s and the          *)
(* destination root /c/s/k, k standing for the archive's SHA-256.          *)
(***************************************************************************)
\* archive entries per archive
MaxEntries == 2

\* unzip_to_stage calls in a row
MaxCalls == 2

CacheDir == << <<"c">> >>
\* stage_root = CACHE_DIR / "stage" / sha256_file(zip_path)
StageRoot == CacheDir \o << <<"s">>, archive.sha >>

\* the entry names tried: e, d/, d/e, d, d/../e, ../e, /e, ../kx/e, ../kx/,
\* w.wld, d/w.wld, d/e/w.wld, d/v.wld/, d/W.WLD
EntryNames == {
    <<"e">>,
    <<"d", "/">>,
    <<"d", "/", "e">>,
    <<"d">>,
    <<"d", "/", ".", ".", "/", "e">>,
    <<".", ".", "/", "e">>,
    <<"/", "e">>,
    <<".", ".", "/", "k", "x", "/", "e">>,
    <<".", ".", "/", "k", "x", "/">>,
    <<"w", ".", "w", "l", "d">>,
    <<"d", "/", "w", ".", "w", "l", "d">>,
    <<"d", "/", "e", "/", "w", ".", "w", "l", "d">>,
    <<"d", "/", "v", ".", "w", "l", "d", "/">>,
    <<"d", "/", "W", ".", "W", "L", "D">>
}

EndsWithSlash(name) == name # <<>> /\ Last(name) = "/"
IsAbsolute(name) == name # <<>> /\ Head(name) = "/"

\* base / Path(name): an absolute name replaces the base
JoinPath(base, name) ==
    IF IsAbsolute(name) THEN PathParts(name) ELSE base \o PathParts(name)

RECURSIVE ResolveFrom(_, _)
\* Path.resolve() with no symbolic link involved: ".." drops the name before it
ResolveFrom(done, rest) ==
    IF rest = <<>> THEN done
    ELSE IF Head(rest) = <<".", ".">>
         THEN ResolveFrom(IF done = <<>> THEN done ELSE SubSeq(done, 1, Len(done) - 1), Tail(rest))
    ELSE ResolveFrom(Append(done, Head(rest)), Tail(rest))

Resolve(p) == ResolveFrom(<<>>, p)

\* str(p) of an absolute path
AbsStr(p) == <<"/">> \o JoinNames(p)

\* str.startswith
StartsWith(s, prefix) == Len(prefix) <= Len(s) /\ SubSeq(s, 1, Len(prefix)) = prefix

\* safe_join(base, name): the resolved path, or the traversal error
safe_join(base, name) ==
    LET p == Resolve(JoinPath(base, name))
    IN  IF ~StartsWith(AbsStr(p), AbsStr(Resolve(base)))
        THEN [ok |-> FALSE, path |-> p]
        ELSE [ok |-> TRUE, path |-> p]

\* the directories that exist before extraction: the root and all above it
Preexisting == Prefixes(Parent(StageRoot))

DiskIsFile(dk, p) == [path |-> p, kind |-> "file"] \in dk
DiskIsDir(dk, p) == p \in Preexisting \/ [path |-> p, kind |-> "dir"] \in dk

\* mkdir(parents=True, exist_ok=True) on the extractor's disk
DiskMkdir(dk, p) ==
    IF \E a \in Prefixes(p) : DiskIsFile(dk, a)
    THEN [ok |-> FALSE, disk |-> dk]
    ELSE [ok |-> TRUE,
          disk |-> dk \cup {[path |-> a, kind |-> "dir"] : a \in Prefixes(p) \ Preexisting}]

\* open(out_file, "wb") and the copy of the entry's bytes
DiskWrite(dk, p) ==
    IF DiskIsDir(dk, p)
    THEN [ok |-> FALSE, disk |-> dk]
    ELSE [ok |-> TRUE, disk |-> dk \cup {[path |-> p, kind |-> "file"]}]

\* lines 46-59 for one entry
ExtractOne(dk, name) ==
    LET sj == safe_join(StageRoot, name)
        target == IF EndsWithSlash(name) THEN sj.path ELSE Parent(sj.path)
        mk == DiskMkdir(dk, target)
        wr == DiskWrite(mk.disk, sj.path)
    IN  IF ~sj.ok THEN [err |-> "traversal", disk |-> dk]
        ELSE IF ~mk.ok THEN [err |-> "io", disk |-> dk]
        ELSE IF EndsWithSlash(name) THEN [err |-> "", disk |-> mk.disk]
        ELSE IF ~wr.ok THEN [err |-> "io", disk |-> mk.disk]
        ELSE [err |-> "", disk |-> wr.disk]

unzipRest == <<stage, install, preserve, scan, impl, pc, stage_map, target_map, ops,
               total, idx, pos, executed, changed, calls, hasCb, log, run, install0,
               cbRaised, backup, existed>>
restVars == <<unzipRest, faults>>

\* children = [p for p in stage_root.iterdir()]
RootChildren(dk) == {x \in dk : Len(x.path) = Len(StageRoot) + 1 /\ IsPrefix(StageRoot, x.path)}

\* a collapse that takes the only child whatever it is
CollapseAnyChild(dk) ==
    LET children == RootChildren(dk)
    IN  IF Cardinality(children) = 1
        THEN LET c == CHOOSE x \in children : TRUE
             IN  [root |-> c.path, wrapper |-> Last(c.path)]
        ELSE [root |-> StageRoot, wrapper |-> NoName]

\* lines 65-68 (and 30-33): the single child when it is a directory, else the root
Collapse(dk) ==
    LET children == RootChildren(dk)
    IN  IF Cardinality(children) = 1 /\ \A x \in children : x.kind = "dir"
        THEN LET c == CHOOSE x \in children : TRUE
             IN  [root |-> c.path, wrapper |-> Last(c.path)]
        ELSE [root |-> StageRoot, wrapper |-> NoName]

\* a reuse that hands back the destination root as it is
ReuseReturnsRoot(dk) == [root |-> StageRoot, wrapper |-> NoName]

\* lines 28-33: what a call returns that finds the destination root present
ReuseReturn(dk) == Collapse(dk)

\* one successful return of unzip_to_stage
Returned1(r, reused) ==
    [sha |-> archive.sha, reused |-> reused, root |-> r.root, wrapper |-> r.wrapper]

\* lines 23-26 and 38-39: a call that finds no destination root creates it
\* and starts to extract
UnzipBegin ==
    /\ flow = "unzip"
    /\ fpc \in {"idle", "failed", "returned"}
    /\ ucalls < MaxCalls
    /\ ~DiskIsDir(disk, StageRoot)
    /\ ucalls' = ucalls + 1
    /\ disk' = DiskMkdir(disk, StageRoot).disk
    /\ entries' = archive.entries
    /\ xerr' = ""
    /\ fpc' = "extract"
    /\ UNCHANGED <<guiVars, bdir, flow, restVars, archive, ret, eroot, target_name, saved, optName, parent,
                   posix>>

\* lines 23-36: a call that finds the destination root extracts nothing
UnzipReuse ==
    /\ flow = "unzip"
    /\ fpc \in {"idle", "failed", "returned"}
    /\ ucalls < MaxCalls
    /\ DiskIsDir(disk, StageRoot)
    /\ ucalls' = ucalls + 1
    /\ ret' = Append(ret, Returned1(ReuseReturn(disk), TRUE))
    /\ xerr' = "ok"
    /\ fpc' = "returned"
    /\ UNCHANGED <<guiVars, bdir, flow, restVars, disk, entries, archive, eroot, target_name, saved, optName,
                   parent, posix>>

\* one turn of the loop over zf.infolist() (lines 46-62); fail is an I/O
\* error (disk full, access denied) raised before the entry is written
ExtractEntry(fail) ==
    /\ flow = "unzip"
    /\ fpc = "extract"
    /\ entries # <<>>
    /\ fail => faults < MaxFaults
    /\ faults' = IF fail THEN faults + 1 ELSE faults
    /\ \E r \in {IF fail THEN [err |-> "io", disk |-> disk]
                            ELSE ExtractOne(disk, Head(entries))} :
          /\ disk' = r.disk
          /\ IF r.err = ""
             THEN /\ entries' = Tail(entries)
                  /\ UNCHANGED <<fpc, xerr>>
             ELSE /\ xerr' = r.err
                  /\ fpc' = "failed"
                  /\ UNCHANGED entries
    /\ UNCHANGED <<guiVars, bdir, flow, unzipRest, auxVars>>

\* lines 64-68: all entries extracted, the extractor returns
ExtractReturn ==
    /\ flow = "unzip"
    /\ fpc = "extract"
    /\ entries = <<>>
    /\ ret' = Append(ret, Returned1(Collapse(disk), FALSE))
    /\ fpc' = "returned"
    /\ xerr' = "ok"
    /\ UNCHANGED <<guiVars, bdir, flow, restVars, disk, entries, archive, eroot, target_name, saved, optName,
                   parent, ucalls, posix>>

(***************************************************************************)
(* Root Locator: find_episode_root (lines 71-108), and the naming of the   *)
(* install directory in do_update (smbx2_episode_updater.py 297-302).      *)
(***************************************************************************)
\* str.lower() on the letters the names are made of
LowerChar(c) ==
    IF c = "W" THEN "w" ELSE IF c = "L" THEN "l" ELSE IF c = "D" THEN "d" ELSE c

Lower(s) == [i \in 1..Len(s) |-> LowerChar(s[i])]

\* PurePath.suffix: from the last dot on, unless that dot begins or ends the name
Suffix(name) ==
    LET dots == {i \in 1..Len(name) : name[i] = "."}
    IN  IF dots = {} THEN <<>>
        ELSE LET i == CHOOSE j \in dots : \A k \in dots : k <= j
             IN  IF 1 < i /\ i < Len(name) THEN SubSeq(name, i, Len(name)) ELSE <<>>

DotWld == <<".", "w", "l", "d">>

\* line 83: p.is_file() and p.suffix.lower() == ".wld"
IsWldFile(x) == x.kind = "file" /\ Lower(Suffix(Last(x.path))) = DotWld

\* the names rglob("*.wld") matches: by case on POSIX, whatever the case on Windows
GlobWld(name) ==
    IF posix THEN FnMatchCase(name, <<"*">> \o DotWld)
    ELSE FnMatchCase(Lower(name), <<"*">> \o DotWld)

\* lines 92-98: the paths stage.rglob("*.wld") yields, files and directories
Candidates(dk, st) == {x \in dk : IsAncestor(st, x.path) /\ GlobWld(Last(x.path))}

\* lines 100-102: the candidates that may come first after the stable sort
\* by depth, whatever order the directory scan yields them in
Shallowest(cands) == {x \in cands : \A y \in cands : Len(x.path) <= Len(y.path)}

\* the directories find_episode_root(st) may return
find_episode_root(dk, st) ==
    IF \E x \in dk : Parent(x.path) = st /\ IsWldFile(x)
    THEN {st}
    ELSE IF Candidates(dk, st) # {}
    THEN {Parent(x.path) : x \in Shallowest(Candidates(dk, st))}
    ELSE {st}

\* do_update, lines 297-302: the episode root is found in what unzip_to_stage
\* returned and its name is the install directory's name
Locate ==
    /\ flow = "unzip"
    /\ fpc = "returned"
    /\ \E r \in find_episode_root(disk, ret[Len(ret)].root) :
          /\ eroot' = r
          /\ target_name' = Last(r)
    /\ fpc' = "located"
    /\ UNCHANGED <<guiVars, bdir, flow, restVars, unzipVars, archive, ret, saved, optName, parent, ucalls,
                   posix>>

\* the SHA-256 values and the server file names an archive may have
Shas == {<<"k">>, <<"m">>}
ZipNames == {<<"z", ".", "z", "i", "p">>, <<"y", ".", "z", "i", "p">>}

\* do_update, lines 317-323 and 295: the update is recorded (the merge is not
\* part of this flow) and a later update downloads an archive of the same
\* layout, with these bytes and this file name
NextDownload(sha, name) ==
    /\ flow = "unzip"
    /\ fpc = "located"
    /\ ucalls < MaxCalls
    /\ saved' = Recorded
    /\ archive' = [archive EXCEPT !.sha = sha, !.name = name]
    /\ fpc' = "idle"
    /\ UNCHANGED <<guiVars, bdir, flow, restVars, unzipVars, ret, eroot, target_name, optName, parent, ucalls,
                   posix>>

ArchivesUpTo(n) == UNION {[1..k -> EntryNames] : k \in 0..n}

InitUnzip ==
    /\ flow = "unzip"
    /\ fpc = "idle"
    /\ archive \in [name : {<<"z", ".", "z", "i", "p">>}, sha : {<<"k">>},
                    entries : ArchivesUpTo(MaxEntries)]
    /\ entries = <<>>
    /\ disk = {}
    /\ xerr = ""
    /\ ret = <<>>
    /\ eroot = <<>>
    /\ target_name = NoName
    /\ saved = NoState
    /\ optName \in {NoName, <<"n">>}
    /\ parent = "dir"
    /\ ucalls = 0
    /\ posix \in BOOLEAN
    /\ stage = EmptyTree
    /\ install = EmptyTree
    /\ install0 = EmptyTree
    /\ preserve = <<>>
    /\ scan = <<>>
    /\ impl = "zip"
    /\ hasCb = FALSE
    /\ MergeIdle
    /\ GuiIdle
    /\ bdir = NoBackups
    /\ backup = NoBackup
    /\ existed = FALSE

NextUnzip ==
    \/ UnzipBegin
    \/ UnzipReuse
    \/ \E fail \in BOOLEAN : ExtractEntry(fail)
    \/ ExtractReturn
    \/ Locate
    \/ \E sha \in Shas : \E name \in ZipNames : NextDownload(sha, name)

SpecUnzip == InitUnzip /\ [][NextUnzip]_vars

\* C4: whatever the entry names, every file written and every directory
\* created for an entry is the destination root or lies below it, name by name
C4_NothingOutsideRoot ==
    \A x \in disk : IsPrefix(StageRoot, x.path)

(***************************************************************************)
(* The merge that smbx2_episode_updater.py defines itself (lines 167-212): *)
(* it tests and copies entry by entry, takes no callback, and ends with    *)
(* the same empty-directory cleanup.                                       *)
(***************************************************************************)
mergeVars == <<pc, stage_map, target_map, ops, total, idx, pos, executed, changed,
               calls, log, run, install0>>

\* a copy loop that compares no digests: every non-preserved entry is copied
InlineCopyAlways(s, t, tm, e, globs, fail) ==
    LET dst == PathParts(e.rel)
        mk  == MkdirParents(t, Parent(dst))
        cp  == Copy2(s, mk.tree, dst, dst)
    IN  IF ~mk.ok
        THEN [tree |-> t, raised |-> TRUE, wrote |-> FALSE, listed |-> FALSE, at |-> dst]
        ELSE IF GlobPreserved(dst, globs)
        THEN [tree |-> mk.tree, raised |-> FALSE, wrote |-> FALSE, listed |-> FALSE, at |-> dst]
        ELSE IF fail \/ ~cp.ok
        THEN [tree |-> mk.tree, raised |-> TRUE, wrote |-> FALSE, listed |-> FALSE, at |-> cp.at]
        ELSE [tree |-> cp.tree, raised |-> FALSE, wrote |-> TRUE, listed |-> TRUE, at |-> cp.at]

\* lines 175-189 for one entry of stage_map
InlineCopyEffect(s, t, tm, e, globs, fail) ==
    LET dst == PathParts(e.rel)
        mk  == MkdirParents(t, Parent(dst))
        needed == IF ~Exists(mk.tree, dst)
                  THEN ~GlobPreserved(dst, globs)
                  ELSE /\ (~MapHas(tm, e.rel) \/ MapGet(tm, e.rel) # e.hsh)
                       /\ ~GlobPreserved(dst, globs)
        cp  == Copy2(s, mk.tree, dst, dst)
    IN  IF ~mk.ok
        THEN [tree |-> t, raised |-> TRUE, wrote |-> FALSE, listed |-> FALSE, at |-> dst]
        ELSE IF ~needed
        THEN [tree |-> mk.tree, raised |-> FALSE, wrote |-> FALSE, listed |-> FALSE, at |-> dst]
        ELSE IF fail \/ ~cp.ok
        THEN [tree |-> mk.tree, raised |-> TRUE, wrote |-> FALSE, listed |-> FALSE, at |-> cp.at]
        ELSE [tree |-> cp.tree, raised |-> FALSE, wrote |-> TRUE, listed |-> TRUE, at |-> cp.at]

\* lines 192-200 for one entry of target_map
InlineDeleteEffect(t, sm, e, globs, fail) ==
    LET dst == PathParts(e.rel)
    IN  IF MapHas(sm, e.rel) \/ GlobPreserved(dst, globs)
        THEN [tree |-> t, raised |-> FALSE, wrote |-> FALSE, listed |-> FALSE, at |-> dst]
        ELSE IF fail \/ ~IsFile(t, dst)
        THEN [tree |-> t, raised |-> FALSE, wrote |-> FALSE, listed |-> FALSE, at |-> dst]
        ELSE [tree |-> Unlink(t, dst), raised |-> FALSE, wrote |-> TRUE, listed |-> TRUE, at |-> dst]

\* where the inline merge goes when the copy loop is over
AfterCopies(tm) == IF tm = <<>> THEN "prune" ELSE "delete"

\* lines 168-172: create install_dir and take both inventories
BeginInline ==
    \E mk \in {MkdirParents(install, Root)} :
    \E sm \in {inventory_hashes(stage, scan)} :
    \E tm \in {inventory_hashes(mk.tree, scan)} :
        /\ install0' = install
        /\ install' = mk.tree
        /\ stage_map' = sm
        /\ target_map' = tm
        /\ ops' = <<>>
        /\ total' = 0
        /\ idx' = 0
        /\ pos' = 0
        /\ changed' = <<>>
        /\ executed' = <<>>
        /\ calls' = <<>>
        /\ log' = <<>>
        /\ run' = run + 1
        /\ parent' = AfterMkdirParents(parent)
        /\ pc' = IF sm = <<>> THEN AfterCopies(tm) ELSE "copy"

\* one turn of the loop of lines 175-189
InlineCopy(fail) ==
    /\ pc = "copy"
    /\ impl = "inline"
    /\ pos < Len(stage_map)
    /\ fail => faults < MaxFaults
    /\ \E e \in {stage_map[pos + 1]} :
       \E eff \in {InlineCopyEffect(stage, install, target_map, stage_map[pos + 1], preserve, fail)} :
           /\ install' = eff.tree
           /\ faults' = IF fail THEN faults + 1 ELSE faults
           /\ IF eff.raised
              THEN /\ pc' = "raised"
                   /\ UNCHANGED <<pos, changed, log>>
              ELSE /\ changed' = IF eff.listed THEN Append(changed, e.rel) ELSE changed
                   /\ log' = IF eff.wrote
                             THEN Append(log, LogEntry([phase |-> "write", rel |-> e.rel], eff, install))
                             ELSE log
                   /\ pos' = IF pos + 1 = Len(stage_map) THEN 0 ELSE pos + 1
                   /\ pc' = IF pos + 1 = Len(stage_map) THEN AfterCopies(target_map) ELSE "copy"
    /\ UNCHANGED <<guiVars, bdir, inputVars, auxVars, flowVars, unzipVars, stage_map, target_map, ops, total, idx,
                   executed, calls, run, install0, cbRaised>>

\* one turn of the loop of lines 192-200
InlineDelete(fail) ==
    /\ pc = "delete"
    /\ impl = "inline"
    /\ pos < Len(target_map)
    /\ fail => faults < MaxFaults
    /\ \E e \in {target_map[pos + 1]} :
       \E eff \in {InlineDeleteEffect(install, stage_map, target_map[pos + 1], preserve, fail)} :
           /\ install' = eff.tree
           /\ faults' = IF fail THEN faults + 1 ELSE faults
           /\ changed' = IF eff.listed THEN Append(changed, e.rel) ELSE changed
           /\ log' = IF eff.wrote
                     THEN Append(log, LogEntry([phase |-> "delete", rel |-> e.rel], eff, install))
                     ELSE log
           /\ pos' = pos + 1
           /\ pc' = IF pos + 1 = Len(target_map) THEN "prune" ELSE "delete"
    /\ UNCHANGED <<guiVars, bdir, inputVars, auxVars, flowVars, unzipVars, stage_map, target_map, ops, total, idx,
                   executed, calls, run, install0, cbRaised>>
(***************************************************************************)
(* The two update flows, from the point where the stage tree and the       *)
(* install directory are known: do_update of smbx2_episode_updater.py      *)
(* (lines 304-315) and the worker of gui.py (lines 290-329).               *)
(***************************************************************************)
RECURSIVE FilesInOrder(_, _)
\* [p for p in install_dir.rglob("*") if p.is_file()]
FilesInOrder(t, order) ==
    IF order = <<>> THEN <<>>
    ELSE IF IsFile(t, Head(order))
         THEN <<Head(order)>> \o FilesInOrder(t, Tail(order))
         ELSE FilesInOrder(t, Tail(order))

\* the entries zf.write has added for the first k files of the listing
Written(t, order, k) ==
    {[rel |-> RelStr(FilesInOrder(t, order)[i]), data |-> t[FilesInOrder(t, order)[i]].data] :
        i \in 1..k}

\* str(install_dir): the episodes directory and the install directory's name
InstallPath(name) == <<"episodes", name>>

\* hashlib.sha1(str(install_dir).encode("utf-8")).hexdigest()[:8]
Sha1Stamp(path) == <<"sha1", path>>

\* a name that also carries the number of the merge it precedes
BackupNameNumbered(name) == [dir |-> name, stamp |-> <<Sha1Stamp(InstallPath(name)), run>>]

\* backup_<install_dir.name>_<stamp>.zip
BackupName(name) == [dir |-> name, stamp |-> Sha1Stamp(InstallPath(name))]

\* zipfile.ZipFile(out, "w"): the archive is created, or truncated when it exists
OpenArchive(dirm, out) == [n \in DOMAIN dirm \cup {out} |-> IF n = out THEN {} ELSE dirm[n]]

\* the archive out holds files
WriteArchive(dirm, out, files) == [dirm EXCEPT ![out] = files]

\* the files create_backup puts into the archive: arcname and content
BackupFiles(t) == {[rel |-> RelStr(q), data |-> t[q].data] : q \in FilesOf(t)}

\* do_update, lines 304-309: the install directory is tested, and created
\* when it is missing
CliDecide ==
    /\ flow = "cli"
    /\ fpc = "decide"
    /\ existed' = Exists(install, Root)
    /\ IF Exists(install, Root)
       THEN /\ fpc' = "backup"
            /\ UNCHANGED <<install, parent>>
       ELSE /\ fpc' = "merge"
            /\ install' = MkdirParents(install, Root).tree
            /\ parent' = AfterMkdirParents(parent)
    /\ UNCHANGED <<guiVars, bdir, inputVars, auxNoParent, mergeVars, unzipVars, flow, backup, faults, cbRaised>>

\* create_backup, lines 215-218: ZipFile(out, "w") truncates the archive
BackupOpen ==
    /\ flow = "cli"
    /\ fpc = "backup"
    /\ backup.state # "partial"
    /\ backup' = [state |-> "partial", files |-> {}]
    /\ bdir' = OpenArchive(bdir, BackupName(target_name))
    /\ UNCHANGED <<guiVars, inputVars, auxVars, mergeVars, unzipVars, install, flow, fpc, existed, faults, cbRaised>>

\* a failed create_backup that do_update survives, going on to the merge
OnBackupErrorContinue == "merge"

\* do_update, lines 310-312: nothing catches an exception of create_backup,
\* which leaves do_update through its finally clause
OnBackupError == "failed"

\* create_backup, lines 219-223: every file is written and the archive
\* closed; fail is an error out of zf.write, which leaves create_backup
\* with the archive closed on the entries written before it
BackupFill(fail) ==
    /\ flow = "cli"
    /\ fpc = "backup"
    /\ backup.state = "partial"
    /\ fail => faults < MaxFaults
    /\ IF fail
       THEN /\ fpc' = OnBackupError
            /\ faults' = faults + 1
            /\ \E k \in 0..Len(FilesInOrder(install, scan)) :
                  /\ k = 0 \/ k < Len(FilesInOrder(install, scan))
                  /\ backup' = [state |-> "failed", files |-> Written(install, scan, k)]
                  /\ bdir' = WriteArchive(bdir, BackupName(target_name),
                                          Written(install, scan, k))
       ELSE /\ fpc' = "merge"
            /\ backup' = [state |-> "complete", files |-> BackupFiles(install)]
            /\ bdir' = WriteArchive(bdir, BackupName(target_name), BackupFiles(install))
            /\ UNCHANGED faults
    /\ UNCHANGED <<guiVars, inputVars, auxVars, mergeVars, unzipVars, install, flow, existed, cbRaised>>

\* do_update, lines 309 and 315: the call of merge_stage_into_install
CliMerge ==
    /\ flow = "cli"
    /\ fpc = "merge"
    /\ impl = "inline"
    /\ BeginInline
    /\ fpc' = "merging"
    /\ UNCHANGED <<guiVars, bdir, inputVars, auxNoParent, unzipVars, flow, backup, existed, faults, cbRaised>>

\* the worker, lines 290-298: a missing install directory is confirmed by
\* the user (proceed), an existing one is merged into at once
GuiDecide(proceed) ==
    /\ flow = "gui"
    /\ fpc = "decide"
    /\ existed' = Exists(install, Root)
    /\ fpc' = IF Exists(install, Root) \/ proceed THEN "merge" ELSE "cancelled"
    /\ UNCHANGED <<guiVars, bdir, inputVars, auxVars, mergeVars, unzipVars, install, flow, backup, faults, cbRaised>>

\* the worker, lines 323-328: merge_stage_into_install(..., on_progress=...).
\* The inline merge has no such parameter and the call raises TypeError;
\* the merge of zip_merge.py takes it.
GuiMerge ==
    /\ flow = "gui"
    /\ fpc = "merge"
    /\ IF impl = "zip"
       THEN /\ BeginZip
            /\ fpc' = "merging"
       ELSE /\ fpc' = "failed"
            /\ UNCHANGED <<install, mergeVars, parent>>
    /\ UNCHANGED <<guiVars, bdir, inputVars, auxNoParent, unzipVars, flow, backup, existed, faults, cbRaised>>

\* do_update, lines 317-323: the merge returned, state.json is written
CliRecord ==
    /\ flow = "cli"
    /\ fpc = "merging"
    /\ pc = "done"
    /\ saved' = Recorded
    /\ fpc' = "recorded"
    /\ UNCHANGED <<guiVars, bdir, inputVars, mergeVars, unzipVars, install, flow, backup, existed, faults,
                   cbRaised, archive, ret, eroot, target_name, optName, parent, ucalls, posix>>

\* the worker, lines 333-338: the merge returned, state.json is written
GuiRecord ==
    /\ flow = "gui"
    /\ fpc = "merging"
    /\ pc = "done"
    /\ saved' = Recorded
    /\ fpc' = "recorded"
    /\ UNCHANGED <<guiVars, bdir, inputVars, mergeVars, unzipVars, install, flow, backup, existed, faults,
                   cbRaised, archive, ret, eroot, target_name, optName, parent, ucalls, posix>>

InitUpdate ==
    /\ stage \in Trees
    /\ install \in Trees \cup {EmptyTree}
    /\ install0 = install
    /\ preserve \in PreserveLists
    /\ scan = <<Pa, Pd, Pdd, Pde, Pdec>>
    /\ flow \in {"cli", "gui"}
    /\ impl \in IF flow = "cli" THEN {"inline"} ELSE {"inline", "zip"}
    /\ hasCb = (flow = "gui")
    /\ MergeIdle
    /\ GuiIdle
    /\ bdir = NoBackups
    /\ AuxIdle
    /\ parent = "dir"
    /\ fpc = "decide"
    /\ backup = NoBackup
    /\ existed = FALSE
    /\ disk = {}
    /\ entries = <<>>
    /\ xerr = ""

NextUpdate ==
    \/ CliDecide
    \/ BackupOpen
    \/ \E fail \in BOOLEAN : BackupFill(fail)
    \/ CliMerge
    \/ InlineCopy(FALSE)
    \/ InlineDelete(FALSE)
    \/ \E proceed \in BOOLEAN : GuiDecide(proceed)
    \/ GuiMerge
    \/ CliRecord
    \/ GuiRecord
    \/ ExecOp(FALSE)
    \/ \E raises \in BOOLEAN : Notify(raises)
    \/ Prune({})

SpecUpdate == InitUpdate /\ [][NextUpdate]_vars

(***************************************************************************)
(* Repeated runs of do_update into one install directory: each run has its *)
(* own stage tree.                                                         *)
(***************************************************************************)
\* the trees the successive archives of one episode unpack to: a and d hold
\* "v1" when they are files, d may be a directory, d/d any file
Releases ==
    {t \in Trees : /\ ~Exists(t, Pde)
                   /\ IsFile(t, Pa) => t[Pa].data = "v1"
                   /\ IsFile(t, Pd) => t[Pd].data = "v1"}

\* do_update is run again after a run that recorded its state or failed
CliAgain ==
    /\ flow = "cli"
    /\ \/ fpc \in {"recorded", "failed"}
       \/ fpc = "merging" /\ pc = "raised"
    /\ run < MaxRuns
    /\ stage' \in Releases
    /\ fpc' = "decide"
    /\ UNCHANGED <<guiVars, bdir, preserve, scan, impl, hasCb, auxVars, mergeVars, unzipVars,
                   install, flow, backup, existed, faults, cbRaised>>

InitBackups ==
    /\ InitUpdate
    /\ flow = "cli"
    /\ preserve = <<>>
    /\ stage \in Releases
    /\ install \in Releases \cup {EmptyTree}

NextBackups ==
    \/ CliDecide
    \/ BackupOpen
    \/ \E fail \in BOOLEAN : BackupFill(fail)
    \/ CliMerge
    \/ InlineCopy(FALSE)
    \/ InlineDelete(FALSE)
    \/ Prune({})
    \/ CliRecord
    \/ CliAgain

SpecBackups == InitBackups /\ [][NextBackups]_vars

C11_BackupFailureStopsUpdate ==
    (flow = "cli" /\ backup.state = "failed") =>
        (run = 0 /\ install = install0 /\ log = <<>> /\ saved = NoState)

\* the backup of an install that differs from the stage has failed
C11_Witness ==
    /\ flow = "cli"
    /\ backup.state = "failed"
    /\ fpc = "failed"
    /\ existed
    /\ PlanOps(inventory_hashes(stage, scan), inventory_hashes(install, scan), preserve) # <<>>

(***************************************************************************)
(* zip_merge.create_backup (lines 207-231) on its own: the files are       *)
(* listed, then written one by one; an error of one zf.write is logged and *)
(* the loop goes on (lines 221-224).                                       *)
(***************************************************************************)
\* lines 213-219: the archive's name is fixed, the files are listed and the
\* archive is opened for writing
ZBackupOpen ==
    /\ flow = "backup"
    /\ fpc = "start"
    /\ backup' = [state |-> "partial", files |-> {}, todo |-> FilesInOrder(install, scan)]
    /\ bdir' = OpenArchive(bdir, BackupName(target_name))
    /\ fpc' = "writing"
    /\ UNCHANGED <<guiVars, inputVars, auxVars, mergeVars, unzipVars, install, flow, existed, faults,
                   cbRaised>>

\* lines 220-224: zf.write of the next file; fail is an error raised by it
ZBackupAdd(fail) ==
    /\ flow = "backup"
    /\ fpc = "writing"
    /\ backup.todo # <<>>
    /\ fail => faults < MaxFaults
    /\ \E p \in {Head(backup.todo)} :
       \E files \in {IF fail \/ ~IsFile(install, p)
                     THEN backup.files
                     ELSE backup.files \cup {[rel |-> RelStr(p), data |-> install[p].data]}} :
          /\ backup' = [state |-> "partial", files |-> files, todo |-> Tail(backup.todo)]
          /\ bdir' = WriteArchive(bdir, BackupName(target_name), files)
    /\ faults' = IF fail THEN faults + 1 ELSE faults
    /\ UNCHANGED <<guiVars, inputVars, auxVars, mergeVars, unzipVars, install, flow, fpc, existed,
                   cbRaised>>

\* lines 219 and 226-227: the archive is closed and its path returned
ZBackupClose ==
    /\ flow = "backup"
    /\ fpc = "writing"
    /\ backup.todo = <<>>
    /\ backup' = [state |-> "complete", files |-> backup.files, todo |-> <<>>]
    /\ fpc' = "returned"
    /\ UNCHANGED <<guiVars, bdir, inputVars, auxVars, mergeVars, unzipVars, install, flow, existed, faults,
                   cbRaised>>

InitBackup ==
    /\ stage = EmptyTree
    /\ install \in Trees
    /\ install0 = install
    /\ preserve = <<>>
    /\ scan \in ScanOrders
    /\ impl = "zip"
    /\ hasCb = FALSE
    /\ MergeIdle
    /\ GuiIdle
    /\ bdir = NoBackups
    /\ AuxIdle
    /\ parent = "dir"
    /\ flow = "backup"
    /\ fpc = "start"
    /\ backup = NoBackup
    /\ existed = TRUE
    /\ disk = {}
    /\ entries = <<>>
    /\ xerr = ""

NextBackup ==
    \/ ZBackupOpen
    \/ \E fail \in BOOLEAN : ZBackupAdd(fail)
    \/ ZBackupClose

SpecBackup == InitBackup /\ [][NextBackup]_vars

\* C12: a backup that create_backup returned holds one entry, under its
\* install-relative path, for every regular file under the install directory
C12_ReturnedBackupIsComplete ==
    (flow = "backup" /\ backup.state = "complete") => backup.files = BackupFiles(install)

\* the latest successful return of unzip_to_stage
LastRet == ret[Len(ret)]

\* C13: a call that finds the cache directory of the archive's SHA-256
\* extracts and writes nothing, returns what the collapse rule gives for
\* the tree there, and that is what the extracting call of the same archive
\* returned
C13_ReuseExtractsNothing ==
    [][(ucalls' = ucalls + 1 /\ DiskIsDir(disk, StageRoot)) =>
          /\ disk' = disk
          /\ Len(ret') = Len(ret) + 1
          /\ ret'[Len(ret')].reused
          /\ ret'[Len(ret')].root = Collapse(disk).root
          /\ ret'[Len(ret')].wrapper = Collapse(disk).wrapper
          /\ \A i \in 1..Len(ret) :
                (ret[i].sha = archive.sha /\ ~ret[i].reused) =>
                    /\ ret[i].root = ret'[Len(ret')].root
                    /\ ret[i].wrapper = ret'[Len(ret')].wrapper]_vars

\* an extracting call returned a wrapper directory and a second call reused it
C13_Witness ==
    /\ Len(ret) = 2
    /\ ~ret[1].reused
    /\ ret[2].reused
    /\ ret[2].wrapper # NoName
    /\ \E x \in disk : x.kind = "file"

\* C14: the return is the single child and its name exactly when the
\* destination root has one child and that child is a directory; else it is
\* the destination root and no wrapper name
C14_CollapseRule ==
    (fpc = "returned") =>
        LET kids == {x \in disk : Parent(x.path) = StageRoot}
            single == \E c \in kids : kids = {c} /\ c.kind = "dir"
        IN  /\ single => \E c \in kids : /\ LastRet.root = c.path
                                         /\ LastRet.wrapper = Last(c.path)
            /\ ~single => (LastRet.root = StageRoot /\ LastRet.wrapper = NoName)

\* a return of a wrapper directory that holds a file
C14_Witness ==
    /\ fpc = "returned"
    /\ LastRet.wrapper # NoName
    /\ \E x \in disk : x.kind = "file" /\ IsPrefix(LastRet.root, x.path)

\* C20: an unzip_to_stage call returns only with a stage tree that holds
\* every file entry of the archive
C20_NoPartialSuccess ==
    (fpc = "returned") =>
        \A i \in 1..Len(archive.entries) :
            ~EndsWithSlash(archive.entries[i]) =>
                DiskIsFile(disk, Resolve(JoinPath(StageRoot, archive.entries[i])))

\* the marker files strictly below the directory st
MarkersBelow(st) == {x \in disk : IsAncestor(st, x.path) /\ IsWldFile(x)}

\* a marker file lies directly in the directory st
MarkerDirectlyIn(st) == \E x \in MarkersBelow(st) : Parent(x.path) = st

\* C15: with no marker file directly in the root and one somewhere below it,
\* find_episode_root returns a directory that directly holds a marker file,
\* and no marker file lies at a smaller depth than that one
C15_ShallowestMarkerDirectory ==
    (fpc = "located" /\ ~MarkerDirectlyIn(LastRet.root) /\ MarkersBelow(LastRet.root) # {}) =>
        \E m \in MarkersBelow(LastRet.root) :
            /\ Parent(m.path) = eroot
            /\ \A m2 \in MarkersBelow(LastRet.root) : Len(m.path) <= Len(m2.path)

\* C16: find_episode_root returns the root itself when a marker file lies
\* directly in it and when there is no marker file at all
C16_RootInBoundaryCases ==
    (fpc = "located" /\ (MarkerDirectlyIn(LastRet.root) \/ MarkersBelow(LastRet.root) = {})) =>
        eroot = LastRet.root

\* C17: a later archive of the same layout, whatever its bytes and its file
\* name, is installed into the directory the earlier one was installed into
C17_NameFromLayoutOnly ==
    (fpc = "located" /\ saved.install_dir_name # NoName) =>
        target_name = saved.install_dir_name

\* C18: with --install-name N the install directory is named N
C18_InstallNameOverrides ==
    (fpc = "located" /\ optName # NoName) => target_name = optName

\* C19: a merge called for an install directory whose parent does not exist
\* leaves that parent missing
C19_ParentNotCreated ==
    [][parent = "none" => parent' = "none"]_vars


(***************************************************************************)
(* The window of gui.py: the Tk event loop runs the handlers one at a      *)
(* time; probes and update workers are threads beside it.                  *)
(***************************************************************************)
\* presses of Update and saves of Settings
MaxEvents == 3

nonGuiVars == <<stage, install, preserve, scan, impl, pc, stage_map, target_map, ops,
                total, idx, pos, executed, changed, calls, hasCb, log, run, install0,
                faults, cbRaised, flow, fpc, backup, existed, disk, entries, xerr,
                archive, ret, eroot, target_name, saved, optName, parent, ucalls, posix,
                bdir>>

\* the phases of a worker that is still running
Running == {"download", "extract", "merge"}

\* the second half of refresh (lines 161-166): the probe is scheduled
ScheduleProbe == [pending EXCEPT !.probe = @ + 1]

\* root.after(0, self.refresh) of a finished worker is due (lines 148-166)
Refresh ==
    /\ pending.refresh > 0
    /\ pending' = [refresh |-> pending.refresh - 1, probe |-> pending.probe + 1]
    /\ UNCHANGED <<nonGuiVars, cfg_url, url_ok, probes, workers, probed, events>>

\* root.after(50, self._async_probe) is due (lines 192-205): a thread is
\* started that probes the URL of self.cfg
AsyncProbe ==
    /\ pending.probe > 0
    /\ pending' = [pending EXCEPT !.probe = @ - 1]
    /\ probes' = [probes EXCEPT ![cfg_url] = @ + 1]
    /\ UNCHANGED <<nonGuiVars, cfg_url, url_ok, workers, probed, events>>

\* a probe thread ends (lines 195-204): url_ok is set to its outcome
ProbeDone(u, ok) ==
    /\ probes[u] > 0
    /\ probes' = [probes EXCEPT ![u] = @ - 1]
    /\ url_ok' = ok
    /\ probed' = IF ok THEN probed \cup {u} ELSE probed
    /\ UNCHANGED <<nonGuiVars, cfg_url, pending, workers, events>>

\* _on_update (lines 225-358): the Update button is pressed; dirok is what
\* os.path.isdir says of the episodes directory
OnUpdate(dirok) ==
    /\ events < MaxEvents
    /\ events' = events + 1
    /\ workers' = IF url_ok /\ dirok
                  THEN Append(workers, [url |-> cfg_url, wpc |-> "download"])
                  ELSE workers
    /\ UNCHANGED <<nonGuiVars, cfg_url, url_ok, pending, probes, probed>>

\* save of the Settings window (lines 382-391): the URL u is stored and
\* refresh is called
Save(u) ==
    /\ events < MaxEvents
    /\ events' = events + 1
    /\ cfg_url' = u
    /\ pending' = ScheduleProbe
    /\ UNCHANGED <<nonGuiVars, url_ok, probes, workers, probed>>

\* the next phase of a worker (lines 256-358)
NextPhase(wpc) ==
    IF wpc = "download" THEN "extract" ELSE IF wpc = "extract" THEN "merge" ELSE "done"

\* worker i passes from one phase to the next, or fails in its phase; a
\* worker that is done has queued refresh (line 348)
WorkerStep(i, ok) ==
    /\ i \in 1..Len(workers)
    /\ workers[i].wpc \in Running
    /\ workers' = [workers EXCEPT ![i].wpc = IF ok THEN NextPhase(@) ELSE "failed"]
    /\ pending' = IF ok /\ workers[i].wpc = "merge"
                  THEN [pending EXCEPT !.refresh = @ + 1]
                  ELSE pending
    /\ UNCHANGED <<nonGuiVars, cfg_url, url_ok, probes, probed, events>>

\* the window as __init__ leaves it (lines 71-87): the configuration is
\* complete and refresh has scheduled the first probe
InitGui ==
    /\ cfg_url \in Urls
    /\ url_ok = FALSE
    /\ pending = [refresh |-> 0, probe |-> 1]
    /\ probes = [u \in Urls |-> 0]
    /\ workers = <<>>
    /\ probed = {}
    /\ events = 0
    /\ flow = "window"
    /\ fpc = "idle"
    /\ stage = EmptyTree
    /\ install = EmptyTree
    /\ install0 = EmptyTree
    /\ preserve = <<>>
    /\ scan = <<>>
    /\ impl = "inline"
    /\ hasCb = TRUE
    /\ MergeIdle
    /\ AuxIdle
    /\ parent = "dir"
    /\ backup = NoBackup
    /\ bdir = NoBackups
    /\ existed = FALSE
    /\ disk = {}
    /\ entries = <<>>
    /\ xerr = ""

NextGui ==
    \/ Refresh
    \/ AsyncProbe
    \/ \E u \in Urls : \E ok \in BOOLEAN : ProbeDone(u, ok)
    \/ \E dirok \in BOOLEAN : OnUpdate(dirok)
    \/ \E u \in Urls : Save(u)
    \/ \E i \in 1..MaxEvents : \E ok \in BOOLEAN : WorkerStep(i, ok)

SpecGui == InitGui /\ [][NextGui]_vars

\* C26: at most one update worker is downloading, extracting or merging
C26_OneWorkerAtATime ==
    Cardinality({i \in 1..Len(workers) : workers[i].wpc \in Running}) <= 1

\* C27: a worker is started only while some probe of the URL the
\* configuration holds at that moment has succeeded
C27_UpdateOnlyOfProbedUrl ==
    [][Len(workers') > Len(workers) => cfg_url \in probed]_vars

(***************************************************************************)
(* Claims about the plan and the order of its execution.                   *)
(***************************************************************************)
\* C21: from the moment a merge has taken its inventories, ops holds every
\* write and every delete the two inventories call for, total and the total
\* handed to every callback equal the length of ops, and neither the
\* inventories, ops nor total change until the next call, whatever the
\* operations do; the call itself has executed nothing yet
C21_PlanFixedBeforeExecution ==
    /\ [](pc # "idle" =>
             /\ ops = WriteOps(stage_map, target_map, preserve)
                          \o DeleteOps(target_map, stage_map, preserve)
             /\ total = Len(ops)
             /\ \A i \in 1..Len(calls) : calls[i].total = Len(ops))
    /\ [][IF run' = run
          THEN /\ ops' = ops
               /\ total' = total
               /\ stage_map' = stage_map
               /\ target_map' = target_map
          ELSE /\ stage_map' = inventory_hashes(stage, scan)
               /\ target_map' = inventory_hashes(install', scan)
               /\ \A p \in Nodes : IsFile(install', p) <=> IsFile(install, p)
               /\ executed' = <<>>
               /\ log' = <<>>]_vars

\* a merge of at least two operations has returned after an operation that
\* failed or was skipped, and every operation was reported
C21_Witness ==
    /\ pc = "done"
    /\ faults > 0
    /\ Len(ops) >= 2
    /\ Len(calls) = Len(ops)
    /\ Len(changed) < Len(ops)


\* a file install had at the call and stage has with the same digest
Identical(p) ==
    /\ IsFile(install0, p)
    /\ IsFile(stage, p)
    /\ Sha256(install0[p].data) = Sha256(stage[p].data)

\* C22: during and after a merge, a file that is in stage and in install
\* with the same digest is as it was at the call, no operation is planned
\* for it, nothing was written at its path and it is not in changed; a
\* planned write is for a non-preserved file of stage that install lacks or
\* has with another digest, a planned delete for a non-preserved file of
\* install that stage lacks
C22_OnlyDifferencesPlanned ==
    pc # "idle" =>
        /\ \A p \in Nodes :
              Identical(p) =>
                  /\ install[p] = install0[p]
                  /\ \A i \in 1..Len(ops) : ops[i].rel # RelStr(p)
                  /\ \A i \in 1..Len(log) : log[i].at # p
                  /\ \A i \in 1..Len(changed) : changed[i] # RelStr(p)
        /\ \A i \in 1..Len(ops) :
              \E p \in {PathParts(ops[i].rel)} :
                  /\ ~Preserved(p)
                  /\ IF ops[i].phase = "write"
                     THEN IsFile(stage, p) /\ ~Identical(p)
                     ELSE IsFile(install0, p) /\ ~IsFile(stage, p)

\* a merge that changed install has returned, and a non-preserved file was
\* identical on both sides
C22_Witness ==
    /\ pc = "done"
    /\ changed # <<>>
    /\ \E p \in Nodes : Identical(p) /\ ~Preserved(p)


C24_StageNeverMutated == [][stage' = stage]_vars

\* an update that made a backup and changed install has been recorded, and
\* stage has an empty directory
C24_Witness ==
    /\ fpc = "recorded"
    /\ backup.state = "complete"
    /\ log # <<>>
    /\ \E p \in Nodes \ {Root} : IsDir(stage, p) /\ Children(stage, p) = {}


\* stage has a non-preserved file where install had a directory at the
\* call, or below a path that was a file of install
TypeConflict(p) ==
    /\ ~Preserved(p)
    /\ IsFile(stage, p)
    /\ \/ IsDir(install0, p)
       \/ \E a \in Nodes \ {Root} : IsAncestor(a, p) /\ IsFile(install0, a)

\* C25: once a merge whose trees conflict in the type of a path has ended,
\* install has stage's file at every such path and has no file that stage
\* lacks and no pattern preserves
C25_TypeConflictsResolved ==
    (pc \in {"done", "raised"} /\ \E p \in Nodes : TypeConflict(p)) =>
        /\ \A p \in Nodes : TypeConflict(p) => install[p] = stage[p]
        /\ \A q \in Nodes : (IsFile(install, q) /\ ~IsFile(stage, q)) => Preserved(q)


\* the files the merge has deleted so far
Deleted == {i \in 1..Len(log) : log[i].phase = "delete"}

\* C28: in either merge, no write takes effect after a delete, changed has
\* no written path after a deleted one, a file is deleted only when every
\* planned write has been executed, and a merge that a write has aborted
\* has deleted nothing
C28_WritesBeforeDeletes ==
    /\ \A i, j \in 1..Len(log) :
          (i < j /\ log[i].phase = "delete") => log[j].phase = "delete"
    /\ \A i, j \in 1..Len(changed) :
          (i < j /\ ~MapHas(stage_map, changed[i])) => ~MapHas(stage_map, changed[j])
    /\ Deleted # {} =>
          IF impl = "zip"
          THEN \A k \in 1..Len(ops) : ops[k].phase = "write" => k <= pos
          ELSE pc \in {"delete", "prune", "done"}
    /\ pc = "raised" => Deleted = {}

\* a merge that wrote and deleted files has returned
C28_Witness ==
    /\ pc = "done"
    /\ Deleted # {}
    /\ \E i \in 1..Len(log) : log[i].phase = "write"
    /\ Len(changed) >= 2


\* C29: once a merge has returned, every directory below the install root
\* has a child
C29_NoEmptyDirectoryLeft ==
    pc = "done" =>
        \A p \in Nodes \ {Root} : IsDir(install, p) => Children(install, p) # {}

\* a merge has returned whose install held, at the call, a directory with
\* nothing but an empty directory in it, and whose stage has an empty
\* directory too
C29_Witness ==
    /\ pc = "done"
    /\ IsDir(install0, Pde)
    /\ Children(install0, Pde) = {}
    /\ Children(install0, Pd) = {Pde}
    /\ \E p \in Nodes \ {Root} : IsDir(stage, p) /\ Children(stage, p) = {}
    /\ changed # <<>>


\* C30: once the inline merge of do_update has returned, the install tree
\* and changed are what the merge of zip_merge.py, called without callback
\* on the same stage, install tree and preserve list, returns
C30_InlineEqualsZipMerge ==
    (flow = "cli" /\ impl = "inline" /\ pc = "done") =>
        MergeOutcome(stage, install0, preserve, scan)
            = [status |-> "done", tree |-> install, changed |-> changed]


\* an inline merge that changed install has returned; stage has a preserved
\* file whose directory install lacked at the call
C30_Witness ==
    /\ flow = "cli"
    /\ impl = "inline"
    /\ pc = "done"
    /\ log # <<>>
    /\ \E p \in Nodes : IsFile(stage, p) /\ Preserved(p) /\ ~Exists(install0, Parent(p))
====
